---- MODULE Spec2Model ----
(***************************************************************************)
(* Model of mr/viscosity.py: fischer, gse, log_derivatives and             *)
(* _parabolic_spline.                                                      *)
(*                                                                         *)
(* Numbers.  A finite real is carried exactly as m * e^q with m and q      *)
(* rationals <<numerator, denominator>>; NaN and the infinities are values *)
(* of their own, as in IEEE arithmetic.  Sample abscissae and ordinates    *)
(* are drawn as e^u with u an integer, so np.log returns the integer u     *)
(* and the weighted least-squares fit is solved exactly over rationals.    *)
(*                                                                         *)
(* Bandwidth.  A width is carried by its sharpness k = 1/(width^2 ln 2),   *)
(* for which the Gaussian weight exp(-(x-x0)^2/(2 width^2)) of the source  *)
(* is 2^(-k (x-x0)^2 / 2), a power of two.                                 *)
(*                                                                         *)
(* Arrays.  numpy arrays are objects on a heap; a Python name is bound to  *)
(* an array id.  Two names bound to one id see each other's writes.        *)
(***************************************************************************)
EXTENDS Integers, Sequences, FiniteSets

\* ------------------------------------------------------------ bounds
\* longest sample sequence handed to log_derivatives or gse
MaxLen == 4
\* largest log-ordinate of a caller's sample: f = e^v, v in 0..MaxLogF
MaxLogF == 2
\* largest log-ordinate of an MSD sample handed to gse: r2 = e^v, v in 0..MaxLogR
MaxLogR == 1

\* logs of the magnitudes the Gamma-function formula for G_s is sampled at
GsLogs == {0, 1}
\* log-abscissae: x = e^u, u in LogGrid, strictly increasing (lag times)
LogGrid == 0 .. 3

\* ------------------------------------------------------------ rationals
Abs(n) == IF n < 0 THEN -n ELSE n

RECURSIVE GCD(_, _)
GCD(a, b) == IF b = 0 THEN a ELSE GCD(b, a % b)

\* the rational n/d in lowest terms, d > 0
RNorm(n, d) ==
    LET g == GCD(Abs(n), Abs(d))
        s == IF d < 0 THEN -1 ELSE 1
    IN  <<(s * n) \div g, (s * d) \div g>>

RInt(n) == <<n, 1>>
RZero == <<0, 1>>
ROne == <<1, 1>>

RAdd(p, q) ==
    LET l == (p[2] \div GCD(p[2], q[2])) * q[2]
    IN  RNorm(p[1] * (l \div p[2]) + q[1] * (l \div q[2]), l)

RNeg(p) == <<-p[1], p[2]>>

RMul(p, q) ==
    LET g1 == GCD(Abs(p[1]), q[2])
        g2 == GCD(Abs(q[1]), p[2])
    IN  RNorm((p[1] \div g1) * (q[1] \div g2), (p[2] \div g2) * (q[2] \div g1))

RInv(p) == RNorm(p[2], p[1])

RLess(p, q) == p[1] * q[2] < q[1] * p[2]

RAbs(p) == <<Abs(p[1]), p[2]>>

RECURSIVE Pow2(_)
Pow2(e) == IF e = 0 THEN 1 ELSE 2 * Pow2(e - 1)

\* ------------------------------------------------------------ floats
\* the finite value m * e^q
Fin(m, q) == [k |-> "fin", m |-> m, q |-> q]
NaN == [k |-> "nan", m |-> RZero, q |-> RZero]
Inf == [k |-> "inf", m |-> RZero, q |-> RZero]
NegInf == [k |-> "ninf", m |-> RZero, q |-> RZero]
\* a rational number
Rat(r) == Fin(r, RZero)
\* e^u for an integer u
ExpInt(u) == Fin(ROne, RInt(u))
Zero == Rat(RZero)

IsFin(v) == v.k = "fin"
\* a finite value with no exponential part: a plain rational
IsRat(v) == v.k = "fin" /\ v.q = RZero

\* np.log, elementwise: log(e^q) = q, log(0) = -inf, log(negative) = nan
np_log(v) ==
    CASE v.k = "nan" -> NaN
      [] v.k = "inf" -> Inf
      [] v.k = "ninf" -> NaN
      [] v.k = "fin" /\ v.m[1] < 0 -> NaN
      [] v.k = "fin" /\ v.m[1] = 0 -> NegInf
      [] v.k = "fin" /\ v.m = ROne -> Rat(v.q)

\* np.exp of a rational (or non-finite) value
np_exp(v) ==
    CASE v.k = "nan" -> NaN
      [] v.k = "inf" -> Inf
      [] v.k = "ninf" -> Zero
      [] IsRat(v) -> Fin(ROne, v.m)

\* + and * on plain rationals; a non-finite operand makes the result NaN
\* (the only non-finite operands that reach these are NaN themselves)
VAdd(a, b) == IF IsRat(a) /\ IsRat(b) THEN Rat(RAdd(a.m, b.m)) ELSE NaN
VMul(a, b) == IF IsRat(a) /\ IsRat(b) THEN Rat(RMul(a.m, b.m)) ELSE NaN

\* 1./t elementwise on an array: 1/0 is inf, 1/(m e^q) = (1/m) e^(-q)
Recip(v) ==
    CASE v.k = "nan" -> NaN
      [] v.k \in {"inf", "ninf"} -> Zero
      [] v.k = "fin" /\ v.m[1] = 0 -> Inf
      [] v.k = "fin" /\ v.m[1] # 0 -> Fin(RInv(v.m), RNeg(v.q))

\* scalar * value
Scale(r, v) == IF v.k = "fin" THEN Fin(RMul(r, v.m), IF RMul(r, v.m) = RZero THEN RZero ELSE v.q) ELSE v

Sign(v) == IF v.m[1] < 0 THEN -1 ELSE IF v.m[1] = 0 THEN 0 ELSE 1

\* a < b as IEEE compares: false when either side is NaN
VLess(a, b) ==
    CASE a.k = "nan" \/ b.k = "nan" -> FALSE
      [] a.k = "ninf" -> b.k # "ninf"
      [] a.k = "inf" -> FALSE
      [] a.k = "fin" /\ b.k = "inf" -> TRUE
      [] a.k = "fin" /\ b.k = "ninf" -> FALSE
      [] a.k = "fin" /\ b.k = "fin" /\ a.q = b.q -> RLess(a.m, b.m)
      [] a.k = "fin" /\ b.k = "fin" /\ a.q # b.q /\ Sign(a) # Sign(b) -> Sign(a) < Sign(b)

\* ------------------------------------------------------------ the fit
AllRat(s) == \A j \in 1 .. Len(s) : IsRat(s[j])
\* the integer a plain rational value holds (logs of samples are integers)
IntOf(v) == v.m[1]

\* weights = np.exp(-(x - x0)**2/(2*width**2)), a Gaussian centred at x0.
\* Entry j is the exponent e_j >= 0 with weights[j]^2 = 2^(-e_j).
weights(x, x0, width) ==
    [j \in 1 .. Len(x) |-> width * (IntOf(x[j]) - IntOf(x0)) * (IntOf(x[j]) - IntOf(x0))]

\* index triples i < j < l with pairwise distinct abscissae
Triples(x) ==
    {t \in (1 .. Len(x)) \X (1 .. Len(x)) \X (1 .. Len(x)) :
        /\ t[1] < t[2] /\ t[2] < t[3]
        /\ x[t[1]] # x[t[2]] /\ x[t[1]] # x[t[3]] /\ x[t[2]] # x[t[3]]}

\* Vandermonde determinant of the triple's abscissae
Vdm(x, t) == (x[t[2]] - x[t[1]]) * (x[t[3]] - x[t[1]]) * (x[t[3]] - x[t[2]])

\* Vdm times the coefficients (c, b, a) of the parabola through the
\* triple's three points (Lagrange interpolation)
TripleC(x, f, t) ==
      f[t[1]] * x[t[2]] * x[t[3]] * (x[t[3]] - x[t[2]])
    - f[t[2]] * x[t[1]] * x[t[3]] * (x[t[3]] - x[t[1]])
    + f[t[3]] * x[t[1]] * x[t[2]] * (x[t[2]] - x[t[1]])
TripleB(x, f, t) ==
    - f[t[1]] * (x[t[3]] * x[t[3]] - x[t[2]] * x[t[2]])
    + f[t[2]] * (x[t[3]] * x[t[3]] - x[t[1]] * x[t[1]])
    - f[t[3]] * (x[t[2]] * x[t[2]] - x[t[1]] * x[t[1]])
TripleA(x, f, t) ==
      f[t[1]] * (x[t[3]] - x[t[2]])
    - f[t[2]] * (x[t[3]] - x[t[1]])
    + f[t[3]] * (x[t[2]] - x[t[1]])

RECURSIVE SumOver(_, _)
\* the sum of g[t] over t in S
SumOver(S, g) ==
    IF S = {} THEN 0
    ELSE LET t == CHOOSE u \in S : TRUE IN g[t] + SumOver(S \ {t}, g)

SetMax(S) == CHOOSE m \in S : \A n \in S : n <= m

\* np.polynomial.polynomial.polyfit(x, f, deg=2, w=weights): the (c, b, a)
\* minimising sum_j (weights[j] * (f[j] - (a x[j]^2 + b x[j] + c)))^2.
\* The minimiser is the average of the parabolas through every three
\* points, each weighted by Vdm^2 times its three squared weights; wexp
\* holds the squared weights as exponents, so the common power of two is
\* divided out before the sums are formed.
polyfit(x, f, wexp) ==
    LET T == Triples(x)
        E == [t \in T |-> wexp[t[1]] + wexp[t[2]] + wexp[t[3]]]
        top == SetMax({E[t] : t \in T})
        sv == [t \in T |-> Pow2(top - E[t]) * Vdm(x, t)]
        D == SumOver(T, [t \in T |-> sv[t] * Vdm(x, t)])
    IN  << RNorm(SumOver(T, [t \in T |-> sv[t] * TripleC(x, f, t)]), D),
           RNorm(SumOver(T, [t \in T |-> sv[t] * TripleB(x, f, t)]), D),
           RNorm(SumOver(T, [t \in T |-> sv[t] * TripleA(x, f, t)]), D) >>

\* what a call produces: coefficients, or an exception
Coef(c, b, a) == [exc |-> "", c |-> c, b |-> b, a |-> a]
Raise(e) == [exc |-> e, c |-> NaN, b |-> NaN, a |-> NaN]

\* _parabolic_spline(x, f, x0, width): the outcomes the call can have.
\* A non-finite entry of f makes every coefficient NaN.  A non-finite entry
\* of x puts NaN into the design matrix, where LAPACK's least-squares
\* driver either fails to converge (numpy raises LinAlgError) or returns
\* NaN, depending on the build.
parabolic_spline(x, f, x0, width) ==
    IF Len(x) # Len(f) THEN {Raise("TypeError")}
    ELSE IF ~(AllRat(x) /\ IsRat(x0)) THEN {Raise("LinAlgError"), Coef(NaN, NaN, NaN)}
    ELSE IF ~AllRat(f) THEN {Coef(NaN, NaN, NaN)}
    ELSE LET xi == [j \in 1 .. Len(x) |-> IntOf(x[j])]
             fi == [j \in 1 .. Len(f) |-> IntOf(f[j])]
             r == polyfit(xi, fi, weights(x, x0, width))
         IN  {Coef(Rat(r[1]), Rat(r[2]), Rat(r[3]))}

\* ------------------------------------------------------------ state
VARIABLES
    op,        \* the top-level call: "fischer", "gse" or "log_derivatives"
    pc,        \* the statement the call is at
    args,      \* the caller's arguments as passed (never written)
    heap,      \* array id -> the array's elements
    bulk_visc, \* fischer's local bulk_visc: an array id, or a scalar value
    ld,        \* the running log_derivatives call: its x, f, width; pass 0 is a direct call
    logx,      \* log_derivatives' local logx
    logf,      \* log_derivatives' local logf
    bind,      \* log_derivatives' local names smooth_f, df, ddf -> array id
    prog,      \* per loop index: statements of the loop body done (0..4)
    coefs,     \* per loop index: the (c, b, a) its fit returned
    fitcalls,  \* calls of _parabolic_spline so far
    inorder,   \* every loop body of the current pass began after the earlier ones had finished
    asc,       \* what the loop of the current pass leaves when run body after body, ascending
    gs,        \* gse's local names f, df, ddf, g, dg, ddg -> array id
    pre,       \* G', G'', G_s and w as lines 47-48 left them, before clipping
    log,       \* records handed to the logger, in order
    ret        \* what the call returned or raised

vars == <<op, pc, args, heap, bulk_visc, ld, logx, logf, bind, prog, coefs,
          fitcalls, inorder, asc, gs, pre, log, ret>>

ArrayIds == {"x", "f", "t", "r2", "w", "o1", "o2", "G_s", "Gp", "Gpp", "bulk"}
NoArray == "none"

\* ------------------------------------------------------------ program constants
\* width=0.7, the default of gse and of log_derivatives.  The model carries
\* it as the sharpness 2 (the nearest the exact arithmetic affords; 0.7 is
\* sharpness 2.94): what the model depends on is that it is the default and
\* differs from the other width a caller can pass.
DefaultWidth == 2
\* clip=0.03
DefaultClip == <<3, 100>>
\* the curvature threshold 0.15 of both quality checks
CurvatureThreshold == <<3, 20>>
\* bulk_visc *= 1.e-6
MicroScale == <<1, 1000000>>

\* ------------------------------------------------------------ inputs
Widths == {1, DefaultWidth}

\* strictly increasing log-abscissae of 3 .. MaxLen samples
XLogs ==
    {s \in UNION {[1 .. n -> LogGrid] : n \in 3 .. MaxLen} :
        \A i \in 1 .. Len(s) - 1 : s[i] < s[i + 1]}
\* log-ordinates of n samples
FLogs(n, top) == [1 .. n -> 0 .. top]

Samples(s) == [j \in 1 .. Len(s) |-> ExpInt(s[j])]
\* a value a logarithm is not defined at: 0 and -1
NonPositive == {Zero, Rat(<<-1, 1>>)}
\* s with one element replaced by a non-positive value
Spoiled(s) == {[s EXCEPT ![j] = b] : j \in 1 .. Len(s), b \in NonPositive}

\* the (x, f) pairs a caller passes with every element positive: equal
\* lengths, or f one shorter than x
Positive(top) ==
    UNION {{<<Samples(x), Samples(f)>> :
               f \in FLogs(Len(x), top) \cup FLogs(Len(x) - 1, top)} : x \in XLogs}
\* pairs with one non-positive element in f
SpoiledF ==
    UNION {UNION {{<<Samples(x), sf>> : sf \in Spoiled(Samples(f))} :
                     f \in FLogs(Len(x), 0)} : x \in XLogs}
\* pairs with one non-positive element in x
SpoiledX ==
    UNION {{<<sx, Samples(f)>> : sx \in Spoiled(Samples(x)), f \in FLogs(Len(x), 0)} :
              x \in XLogs}

NoArgs ==
    [x |-> <<>>, f |-> <<>>, width |-> DefaultWidth, a |-> 1, T |-> 298,
     clip |-> DefaultClip, D |-> 1, contact_angle |-> 90,
     bulk_visc |-> Rat(<<1, 1000>>), bulk_is_array |-> FALSE]

EmptyHeap == [id \in ArrayIds |-> <<>>]
NoBind == [smooth_f |-> NoArray, df |-> NoArray, ddf |-> NoArray]
NoGs == [f |-> NoArray, df |-> NoArray, ddf |-> NoArray,
         g |-> NoArray, dg |-> NoArray, ddg |-> NoArray]
NoPre == [Gp |-> <<>>, Gpp |-> <<>>, G_s |-> <<>>, w |-> <<>>]
NoRet == [kind |-> "none", exc |-> "", ids |-> <<>>, val |-> <<>>]
NoAsc == [coefs |-> <<>>, smooth_f |-> <<>>, df |-> <<>>, ddf |-> <<>>]
NoLd == [x |-> NoArray, f |-> NoArray, width |-> DefaultWidth, pass |-> 0]

InitCommon ==
    /\ bulk_visc = [is_array |-> FALSE, v |-> Zero]
    /\ logx = <<>> /\ logf = <<>> /\ bind = NoBind
    /\ prog = <<>> /\ coefs = <<>> /\ fitcalls = 0 /\ inorder = TRUE /\ asc = NoAsc
    /\ gs = NoGs /\ pre = NoPre /\ log = <<>> /\ ret = NoRet

\* the arguments and the heap of a call of log_derivatives(c[1], c[2], w)
LdCall(c, w) ==
    /\ args = [NoArgs EXCEPT !.x = c[1], !.f = c[2], !.width = w]
    /\ heap = [EmptyHeap EXCEPT !["x"] = c[1], !["f"] = c[2]]
    /\ ld = [x |-> "x", f |-> "f", width |-> w, pass |-> 0]

\* a caller invokes log_derivatives(x, f, width), ordinates up to e^top
InitLdOf(top) ==
    /\ op = "log_derivatives" /\ pc = "ld_assert"
    /\ \/ \E c \in SpoiledF, w \in Widths : LdCall(c, w)
       \/ \E c \in SpoiledX, w \in Widths : LdCall(c, w)
       \/ \E c \in Positive(top), w \in Widths : LdCall(c, w)
    /\ InitCommon

\* the arguments and the heap of a call of gse(c[1], c[2], a, width=w)
GseCall(c, w, a) ==
    /\ args = [NoArgs EXCEPT !.x = c[1], !.f = c[2], !.width = w, !.a = a]
    /\ heap = [EmptyHeap EXCEPT !["t"] = c[1], !["r2"] = c[2]]

\* a caller invokes gse(t, r2, a, T, clip, width)
InitGse ==
    /\ op = "gse" /\ pc = "g_recip"
    /\ \/ \E c \in SpoiledF, w \in Widths, a \in {0, 1} : GseCall(c, w, a)
       \/ \E c \in SpoiledX, w \in Widths, a \in {0, 1} : GseCall(c, w, a)
       \/ \E c \in Positive(MaxLogR), w \in Widths, a \in {0, 1} : GseCall(c, w, a)
    /\ ld = NoLd
    /\ InitCommon

\* a caller invokes fischer(D, a, contact_angle, bulk_visc, T); bulk_visc is
\* a float or a one-element float array
InitFischer ==
    /\ op = "fischer" /\ pc = "f_coef"
    /\ \E arr \in BOOLEAN, b \in {Rat(<<1, 1000>>), Rat(<<1, 100>>)} :
          /\ args = [NoArgs EXCEPT !.bulk_visc = b, !.bulk_is_array = arr]
          /\ heap = [EmptyHeap EXCEPT !["bulk"] = IF arr THEN <<b>> ELSE <<>>]
    /\ ld = NoLd
    /\ logx = <<>> /\ logf = <<>> /\ bind = NoBind
    /\ prog = <<>> /\ coefs = <<>> /\ fitcalls = 0 /\ inorder = TRUE /\ asc = NoAsc
    /\ gs = NoGs /\ pre = NoPre /\ log = <<>> /\ ret = NoRet
    /\ bulk_visc = IF args.bulk_is_array THEN [is_array |-> TRUE, v |-> Zero]
                   ELSE [is_array |-> FALSE, v |-> args.bulk_visc]

InitLd == InitLdOf(MaxLogF)

Init == InitLd \/ InitGse \/ InitFischer

\* ------------------------------------------------------------ helpers
RaiseRet(e) == [kind |-> "error", exc |-> e, ids |-> <<>>, val |-> <<>>]
ValueRet(ids, val) == [kind |-> "value", exc |-> "", ids |-> ids, val |-> val]

RECURSIVE Product(_)
\* every sequence that takes its j-th element from sets[j]
Product(sets) ==
    IF sets = <<>> THEN {<<>>}
    ELSE {<<h>> \o t : h \in sets[1], t \in Product(Tail(sets))}

VAbs(v) ==
    CASE v.k = "nan" -> NaN
      [] v.k \in {"inf", "ninf"} -> Inf
      [] v.k = "fin" -> Fin(RAbs(v.m), v.q)

Two == Rat(<<2, 1>>)

\* ------------------------------------------------------------ log_derivatives
\* a length check that lets every pair through
len_check_off(x, f) == TRUE

\* assert len(x) == len(f), "x and f must be the same length."
len_check(x, f) == Len(x) = Len(f)

LdAssert ==
    /\ pc = "ld_assert"
    /\ IF len_check(heap[ld.x], heap[ld.f])
       THEN pc' = "ld_log" /\ ret' = ret
       ELSE pc' = "done" /\ ret' = RaiseRet("AssertionError")
    /\ UNCHANGED <<op, args, heap, bulk_visc, ld, logx, logf, bind, prog, coefs,
                   fitcalls, inorder, asc, gs, pre, log>>

\* logx, logf = np.log(x), np.log(f): two new arrays
LdLog ==
    /\ pc = "ld_log"
    /\ logx' = [j \in 1 .. Len(heap[ld.x]) |-> np_log(heap[ld.x][j])]
    /\ logf' = [j \in 1 .. Len(heap[ld.f]) |-> np_log(heap[ld.f][j])]
    /\ pc' = "ld_alloc"
    /\ UNCHANGED <<op, args, heap, bulk_visc, ld, bind, prog, coefs, fitcalls, inorder, asc,
                   gs, pre, log, ret>>

\* the array np.zeros_like(f) creates in this pass
OutId == IF ld.pass = 2 THEN "o2" ELSE "o1"

\* smooth_f = df = ddf = np.zeros_like(f): one array, bound to three names
zeros_like_chain(out) == [smooth_f |-> out, df |-> out, ddf |-> out]

\* np.exp(a*x0**2 + b*x0 + c)
smooth_value(r, x0) == np_exp(VAdd(VAdd(VMul(r.a, VMul(x0, x0)), VMul(r.b, x0)), r.c))
\* 2*a*x0 + b
df_value(r, x0) == VAdd(VMul(VMul(Two, r.a), x0), r.b)
\* 2*a
ddf_value(r) == VMul(Two, r.a)

\* c, b, a = _parabolic_spline(logx, logf, x0, width) at index i, when
\* it raises nothing
loop_fit(i) ==
    CHOOSE r \in parabolic_spline(logx, logf, logx[i], ld.width) : r.exc = ""
RECURSIVE loop_fits(_)
\* <<loop_fit(i), loop_fit(i + 1), ...>> up to the last index
loop_fits(i) == IF i > Len(logx) THEN <<>> ELSE <<loop_fit(i)>> \o loop_fits(i + 1)
\* the three statements of the loop body at index i, with (c, b, a) =
\* ref[i], on heap h under the bindings b
loop_body(h, b, ref, i) ==
    LET h1 == [h EXCEPT ![b.smooth_f][i] = smooth_value(ref[i], logx[i])]
        h2 == [h1 EXCEPT ![b.df][i] = df_value(ref[i], logx[i])]
    IN  [h2 EXCEPT ![b.ddf][i] = ddf_value(ref[i])]
RECURSIVE loop_ascending(_, _, _, _)
\* the loop bodies i, i + 1, ... one after the other
loop_ascending(h, b, ref, i) ==
    IF i > Len(logx) THEN h ELSE loop_ascending(loop_body(h, b, ref, i), b, ref, i + 1)

LdAlloc ==
    /\ pc = "ld_alloc"
    /\ heap' = [heap EXCEPT ![OutId] = [j \in 1 .. Len(heap[ld.f]) |-> Zero]]
    /\ bind' = zeros_like_chain(OutId)
    /\ prog' = [j \in 1 .. Len(logx) |-> 0]
    /\ coefs' = [j \in 1 .. Len(logx) |-> Coef(NaN, NaN, NaN)]
    /\ inorder' = TRUE
    /\ asc' = LET ref == loop_fits(1)
                  h == loop_ascending(heap', bind', ref, 1)
              IN  [coefs |-> ref, smooth_f |-> h[bind'.smooth_f],
                   df |-> h[bind'.df], ddf |-> h[bind'.ddf]]
    /\ pc' = "ld_loop"
    /\ UNCHANGED <<op, args, bulk_visc, ld, logx, logf, fitcalls, gs, pre, log, ret>>

\* the loop "for i, x0 in enumerate(logx)" runs its bodies in ascending
\* order: body i starts when every earlier body is through and no later
\* one has begun
Turn(i) ==
    \A j \in DOMAIN prog : (j < i => prog[j] = 4) /\ (j > i => prog[j] = 0)

\* c, b, a = _parabolic_spline(logx, logf, x0, width)
Fit(i) ==
    /\ pc = "ld_loop" /\ i \in DOMAIN prog /\ prog[i] = 0
    /\ fitcalls' = fitcalls + 1
    /\ inorder' = (inorder /\ Turn(i))
    /\ \E r \in parabolic_spline(logx, logf, logx[i], ld.width) :
          IF r.exc # ""
          THEN /\ pc' = "done" /\ ret' = RaiseRet(r.exc)
               /\ UNCHANGED <<prog, coefs>>
          ELSE /\ coefs' = [coefs EXCEPT ![i] = r]
               /\ prog' = [prog EXCEPT ![i] = 1]
               /\ UNCHANGED <<pc, ret>>
    /\ UNCHANGED <<op, args, heap, bulk_visc, ld, logx, logf, bind, asc, gs, pre, log>>

\* an output index that counts the loop bodies begun so far
out_index_arrival(i) == Cardinality({j \in DOMAIN prog : prog[j] >= 1})

\* the element body i of the loop writes: the index i of enumerate
out_index(i) == i

\* smooth_f[i] = np.exp(a*x0**2 + b*x0 + c)
WriteSmooth(i) ==
    /\ pc = "ld_loop" /\ i \in DOMAIN prog /\ prog[i] = 1
    /\ heap' = [heap EXCEPT ![bind.smooth_f][out_index(i)] = smooth_value(coefs[i], logx[i])]
    /\ prog' = [prog EXCEPT ![i] = 2]
    /\ UNCHANGED <<op, pc, args, bulk_visc, ld, logx, logf, bind, coefs, fitcalls, inorder, asc,
                   gs, pre, log, ret>>

\* df[i] = 2*a*x0 + b
WriteDf(i) ==
    /\ pc = "ld_loop" /\ i \in DOMAIN prog /\ prog[i] = 2
    /\ heap' = [heap EXCEPT ![bind.df][out_index(i)] = df_value(coefs[i], logx[i])]
    /\ prog' = [prog EXCEPT ![i] = 3]
    /\ UNCHANGED <<op, pc, args, bulk_visc, ld, logx, logf, bind, coefs, fitcalls, inorder, asc,
                   gs, pre, log, ret>>

\* ddf[i] = 2*a
WriteDdf(i) ==
    /\ pc = "ld_loop" /\ i \in DOMAIN prog /\ prog[i] = 3
    /\ heap' = [heap EXCEPT ![bind.ddf][out_index(i)] = ddf_value(coefs[i])]
    /\ prog' = [prog EXCEPT ![i] = 4]
    /\ UNCHANGED <<op, pc, args, bulk_visc, ld, logx, logf, bind, coefs, fitcalls, inorder, asc,
                   gs, pre, log, ret>>

\* return smooth_f, df, ddf: to the caller, or into gse's f, df, ddf (first
\* pass) or g, dg, ddg (second pass)
LdReturn ==
    /\ pc = "ld_loop" /\ \A j \in DOMAIN prog : prog[j] = 4
    /\ CASE ld.pass = 0 ->
              /\ ret' = ValueRet(<<bind.smooth_f, bind.df, bind.ddf>>, <<>>)
              /\ pc' = "done" /\ gs' = gs
         [] ld.pass = 1 ->
              /\ gs' = [gs EXCEPT !.f = bind.smooth_f, !.df = bind.df, !.ddf = bind.ddf]
              /\ pc' = "g_warn1" /\ ret' = ret
         [] ld.pass = 2 ->
              /\ gs' = [gs EXCEPT !.g = bind.smooth_f, !.dg = bind.df, !.ddg = bind.ddf]
              /\ pc' = "g_warn2" /\ ret' = ret
    /\ UNCHANGED <<op, args, heap, bulk_visc, ld, logx, logf, bind, prog, coefs,
                   fitcalls, inorder, asc, pre, log>>

AscFit == \E i \in 1 .. MaxLen : Turn(i) /\ Fit(i)
AscWriteSmooth == \E i \in 1 .. MaxLen : Turn(i) /\ WriteSmooth(i)
AscWriteDf == \E i \in 1 .. MaxLen : Turn(i) /\ WriteDf(i)
AscWriteDdf == \E i \in 1 .. MaxLen : Turn(i) /\ WriteDdf(i)

\* ------------------------------------------------------------ gse
\* the width gse hands to log_derivatives: lines 36 and 42 pass none, so
\* the callee's default applies
gse_pass_width == DefaultWidth

\* kT, DIM; s = w = 1./t
GseRecip ==
    /\ pc = "g_recip"
    /\ heap' = [heap EXCEPT !["w"] = [j \in 1 .. Len(heap["t"]) |-> Recip(heap["t"][j])]]
    /\ pc' = "g_call1"
    /\ UNCHANGED <<op, args, bulk_visc, ld, logx, logf, bind, prog, coefs, fitcalls, inorder, asc,
                   gs, pre, log, ret>>

\* f, df, ddf = log_derivatives(t, r2)
GseCall1 ==
    /\ pc = "g_call1"
    /\ ld' = [x |-> "t", f |-> "r2", width |-> gse_pass_width, pass |-> 1]
    /\ pc' = "ld_assert"
    /\ UNCHANGED <<op, args, heap, bulk_visc, logx, logf, bind, prog, coefs, fitcalls, inorder, asc,
                   gs, pre, log, ret>>

\* dd.max() > 0.15, the comparison without np.abs
curvature_exceeds_signed(dd) ==
    /\ \A j \in 1 .. Len(dd) : dd[j].k # "nan"
    /\ \E j \in 1 .. Len(dd) : VLess(Rat(CurvatureThreshold), dd[j])

\* np.abs(dd).max() > 0.15; the maximum of an array holding NaN is NaN,
\* which compares false
curvature_exceeds(dd) ==
    /\ \A j \in 1 .. Len(dd) : dd[j].k # "nan"
    /\ \E j \in 1 .. Len(dd) : VLess(Rat(CurvatureThreshold), VAbs(dd[j]))

\* if np.abs(ddf).max() > 0.15: logger.warning(...)
GseWarn1 ==
    /\ pc = "g_warn1"
    /\ log' = IF curvature_exceeds(heap[gs.ddf]) THEN Append(log, "warning_msd") ELSE log
    /\ pc' = "g_Gs"
    /\ UNCHANGED <<op, args, heap, bulk_visc, ld, logx, logf, bind, prog, coefs,
                   fitcalls, inorder, asc, gs, pre, ret>>

\* the sign of Gamma(y) at a rational y that is no pole
GammaSign(y) ==
    IF y[1] > 0 THEN 1
    ELSE IF (((-y[1]) \div y[2]) % 2) = 0 THEN -1 ELSE 1
\* the poles of Gamma: 0, -1, -2, ...
GammaPole(y) == y[2] = 1 /\ y[1] <= 0

\* One element of (DIM/3.)*kT/(pi*a) / (f*special.gamma(1 + df)*(1 + ddf/2.))
\* for a # 0: NaN from a NaN operand; +-inf where the divisor is zero (the
\* sign is that of the zero); 0 or NaN at a pole of Gamma; otherwise a real
\* of the sign the three factors give, whose magnitude (Gamma is
\* transcendental) is any e^v sampled from GsLogs.
GsElem(f, df, ddf) ==
    IF ~(IsFin(f) /\ IsRat(df) /\ IsRat(ddf)) THEN {NaN}
    ELSE LET y == RAdd(ROne, df.m)
             h == RAdd(ROne, RMul(<<1, 2>>, ddf.m))
         IN  IF GammaPole(y)
             THEN (IF f.m[1] = 0 \/ h[1] = 0 THEN {NaN} ELSE {NaN, Zero})
             ELSE IF f.m[1] = 0 \/ h[1] = 0 THEN {Inf, NegInf}
             ELSE {Fin(<<Sign(f) * GammaSign(y) * Sign(Rat(h)), 1>>, RInt(v)) :
                      v \in GsLogs}

\* G_s = (DIM/3.)*kT/(pi*a) / (f*special.gamma(1 + df)*(1 + ddf/2.))
\* pi*a is a Python float: dividing by it raises when a is 0
GseGs ==
    /\ pc = "g_Gs"
    /\ IF args.a = 0
       THEN pc' = "done" /\ ret' = RaiseRet("ZeroDivisionError") /\ heap' = heap
       ELSE /\ \E G \in Product([j \in 1 .. Len(heap[gs.f]) |->
                        GsElem(heap[gs.f][j], heap[gs.df][j], heap[gs.ddf][j])]) :
                   heap' = [heap EXCEPT !["G_s"] = G]
            /\ pc' = "g_call2" /\ ret' = ret
    /\ UNCHANGED <<op, args, bulk_visc, ld, logx, logf, bind, prog, coefs, fitcalls, inorder, asc,
                   gs, pre, log>>

\* g, dg, ddg = log_derivatives(s, G_s)
GseCall2 ==
    /\ pc = "g_call2"
    /\ ld' = [x |-> "w", f |-> "G_s", width |-> gse_pass_width, pass |-> 2]
    /\ pc' = "ld_assert"
    /\ UNCHANGED <<op, args, heap, bulk_visc, logx, logf, bind, prog, coefs, fitcalls, inorder, asc,
                   gs, pre, log, ret>>

\* if np.abs(ddg).max() > 0.15: logger.warning(...)
GseWarn2 ==
    /\ pc = "g_warn2"
    /\ log' = IF curvature_exceeds(heap[gs.ddg]) THEN Append(log, "warning_G") ELSE log
    /\ pc' = "g_moduli"
    /\ UNCHANGED <<op, args, heap, bulk_visc, ld, logx, logf, bind, prog, coefs,
                   fitcalls, inorder, asc, gs, pre, ret>>

\* <<G'/G_s, G''/G_s>> in hundredths, where cos and sin decide the values:
\* below, at and above the default clip of 3 hundredths
RatioPairs == {<<1, 50>>, <<3, 3>>, <<50, 1>>}

\* One element of g/(1. + ddg) * (np.cos(pi/2*dg) - (pi/2-1)*dg*ddg) paired
\* with the same element of g/(1. + ddg) * (np.sin(pi/2*dg) -
\* (pi/2-1)*(1 - dg)*ddg): NaN from a NaN operand; infinities (NaN for 0/0)
\* where 1 + ddg is zero; 0 where g is zero; otherwise reals the
\* transcendental factors decide, sampled as ratios of G_s.
ModulusElem(g, dg, ddg, Gs) ==
    IF ~(IsFin(g) /\ IsRat(dg) /\ IsRat(ddg) /\ IsFin(Gs)) THEN {<<NaN, NaN>>}
    ELSE IF RAdd(ROne, ddg.m)[1] = 0
         THEN (IF g.m[1] = 0 THEN {<<NaN, NaN>>} ELSE {Inf, NegInf} \X {Inf, NegInf})
    ELSE IF g.m[1] = 0 THEN {<<Zero, Zero>>}
    ELSE {<<Scale(<<r[1], 100>>, Gs), Scale(<<r[2], 100>>, Gs)>> : r \in RatioPairs}

ModulusArrays ==
    Product([j \in 1 .. Len(heap[gs.g]) |->
               ModulusElem(heap[gs.g][j], heap[gs.dg][j], heap[gs.ddg][j], heap["G_s"][j])])

\* Gp = ...; Gpp = ...: two new arrays
GseModuli ==
    /\ pc = "g_moduli"
    /\ \E PQ \in ModulusArrays :
          LET P == [j \in 1 .. Len(PQ) |-> PQ[j][1]]
              Q == [j \in 1 .. Len(PQ) |-> PQ[j][2]]
          IN  /\ heap' = [heap EXCEPT !["Gp"] = P, !["Gpp"] = Q]
              /\ pre' = [Gp |-> P, Gpp |-> Q, G_s |-> heap["G_s"], w |-> heap["w"]]
    /\ pc' = "g_clipGp"
    /\ UNCHANGED <<op, args, bulk_visc, ld, logx, logf, bind, prog, coefs, fitcalls, inorder, asc,
                   gs, log, ret>>

\* the boolean array G <= clip*G_s
clip_mask_le(G, G_s, clip) ==
    [j \in 1 .. Len(G) |->
        VLess(G[j], Scale(clip, G_s[j])) \/ (IsFin(G[j]) /\ G[j] = Scale(clip, G_s[j]))]

\* the boolean array G < clip*G_s
clip_mask(G, G_s, clip) == [j \in 1 .. Len(G) |-> VLess(G[j], Scale(clip, G_s[j]))]
\* G[mask] = 0
masked_zero(G, mask) == [j \in 1 .. Len(G) |-> IF mask[j] THEN Zero ELSE G[j]]

\* if np.any(Gp < clip*G_s): Gp[Gp < clip*G_s] = 0; logger.info(...)
GseClipGp ==
    /\ pc = "g_clipGp"
    /\ LET mask == clip_mask(heap["Gp"], heap["G_s"], args.clip)
       IN  IF \E j \in DOMAIN mask : mask[j]
           THEN /\ heap' = [heap EXCEPT !["Gp"] = masked_zero(heap["Gp"], mask)]
                /\ log' = Append(log, "info_Gp")
           ELSE UNCHANGED <<heap, log>>
    /\ pc' = "g_clipGpp"
    /\ UNCHANGED <<op, args, bulk_visc, ld, logx, logf, bind, prog, coefs, fitcalls, inorder, asc,
                   gs, pre, ret>>

\* if np.any(Gpp < clip*G_s): Gpp[Gpp < clip*G_s] = 0; logger.info(...)
GseClipGpp ==
    /\ pc = "g_clipGpp"
    /\ LET mask == clip_mask(heap["Gpp"], heap["G_s"], args.clip)
       IN  IF \E j \in DOMAIN mask : mask[j]
           THEN /\ heap' = [heap EXCEPT !["Gpp"] = masked_zero(heap["Gpp"], mask)]
                /\ log' = Append(log, "info_Gpp")
           ELSE UNCHANGED <<heap, log>>
    /\ pc' = "g_ret"
    /\ UNCHANGED <<op, args, bulk_visc, ld, logx, logf, bind, prog, coefs, fitcalls, inorder, asc,
                   gs, pre, ret>>

\* return w, G_s, Gp, Gpp
GseReturn ==
    /\ pc = "g_ret"
    /\ ret' = ValueRet(<<"w", "G_s", "Gp", "Gpp">>, <<>>)
    /\ pc' = "done"
    /\ UNCHANGED <<op, args, heap, bulk_visc, ld, logx, logf, bind, prog, coefs,
                   fitcalls, inorder, asc, gs, pre, log>>

\* ------------------------------------------------------------ fischer
\* d, c0, c1, kT and the two logger.info calls (lines 15-25)
FischerCoef ==
    /\ pc = "f_coef"
    /\ log' = log \o <<"info_c0_c1", "info_units">>
    /\ pc' = "f_scale"
    /\ UNCHANGED <<op, args, heap, bulk_visc, ld, logx, logf, bind, prog, coefs,
                   fitcalls, inorder, asc, gs, pre, ret>>

\* bulk_visc *= 1.e-6: on a float the name is rebound to the product; on an
\* array numpy multiplies in place, in the array the caller passed
FischerScale ==
    /\ pc = "f_scale"
    /\ IF bulk_visc.is_array
       THEN /\ heap' = [heap EXCEPT !["bulk"] =
                          [j \in 1 .. Len(heap["bulk"]) |-> Scale(MicroScale, heap["bulk"][j])]]
            /\ bulk_visc' = bulk_visc
       ELSE /\ bulk_visc' = [bulk_visc EXCEPT !.v = Scale(MicroScale, bulk_visc.v)]
            /\ heap' = heap
    /\ pc' = "f_ret"
    /\ UNCHANGED <<op, args, ld, logx, logf, bind, prog, coefs, fitcalls, inorder, asc, gs, pre,
                   log, ret>>

\* film_visc = (kT/D - bulk_visc*a*c0)/c1; return film_visc.  c0 and c1 are
\* transcendental; the result is carried as the operands it is formed from.
FischerReturn ==
    /\ pc = "f_ret"
    /\ ret' = ValueRet(<<>>, <<args.T, args.D, args.a, args.contact_angle,
                            IF bulk_visc.is_array THEN heap["bulk"] ELSE <<bulk_visc.v>> >>)
    /\ pc' = "done"
    /\ UNCHANGED <<op, args, heap, bulk_visc, ld, logx, logf, bind, prog, coefs,
                   fitcalls, inorder, asc, gs, pre, log>>

\* ------------------------------------------------------------ specifications
Next ==
    \/ LdAssert \/ LdLog \/ LdAlloc
    \/ AscFit \/ AscWriteSmooth \/ AscWriteDf \/ AscWriteDdf
    \/ LdReturn
    \/ GseRecip \/ GseCall1 \/ GseWarn1 \/ GseGs \/ GseCall2 \/ GseWarn2
    \/ GseModuli \/ GseClipGp \/ GseClipGpp \/ GseReturn
    \/ FischerCoef \/ FischerScale \/ FischerReturn

Spec == Init /\ [][Next]_vars

\* The loop bodies run in any order and interleaved statement by statement
\* (the data-parallel reading of the loop), on direct calls of
\* log_derivatives.
ParFit == \E i \in 1 .. MaxLen : Fit(i)
ParWriteSmooth == \E i \in 1 .. MaxLen : WriteSmooth(i)
ParWriteDf == \E i \in 1 .. MaxLen : WriteDf(i)
ParWriteDdf == \E i \in 1 .. MaxLen : WriteDdf(i)

NextAnyOrder ==
    \/ LdAssert \/ LdLog \/ LdAlloc
    \/ ParFit \/ ParWriteSmooth \/ ParWriteDf \/ ParWriteDdf
    \/ LdReturn

InitAnyOrder == InitLdOf(MaxLogR)

SpecAnyOrder == InitAnyOrder /\ [][NextAnyOrder]_vars

\* ------------------------------------------------------------ claims
Done == pc = "done"
Returned == pc = "done" /\ ret.kind = "value"
Failed == pc = "done" /\ ret.kind = "error"
Range(q) == {q[j] : j \in 1 .. Len(q)}
IsNonPositive(v) == v.k = "fin" /\ v.m[1] <= 0
\* the caller's sequences as passed have equal lengths
EqualLengths == Len(args.x) = Len(args.f)

\* C1.  When log_derivatives returns, at every index i the first returned
\* sequence holds exp(a*u0^2 + b*u0 + c), the second 2*a*u0 + b and the
\* third 2*a, for the (c, b, a) fitted at u0 = log(x[i]): the three
\* sequences have the input's length and none of the three writes at i
\* has replaced what another of them wrote.
C1_ThreeQuantities ==
    (op = "log_derivatives" /\ Returned) =>
        \A i \in 1 .. Len(args.x) :
            /\ Len(heap[ret.ids[1]]) = Len(args.x)
            /\ heap[ret.ids[1]][i] = smooth_value(coefs[i], logx[i])
            /\ heap[ret.ids[2]][i] = df_value(coefs[i], logx[i])
            /\ heap[ret.ids[3]][i] = ddf_value(coefs[i])

\* C2.  When gse returns, every element of G' is 0 if the unclipped G' there
\* was strictly below clip*G_s there and is the unclipped G' otherwise, the
\* same holds for G'' with its own unclipped values, and w and G_s are what
\* they were before clipping.
C2_ClipElementwise ==
    (op = "gse" /\ Returned) =>
        /\ \A j \in 1 .. Len(pre.Gp) :
              heap[ret.ids[3]][j] =
                  IF VLess(pre.Gp[j], Scale(args.clip, pre.G_s[j])) THEN Zero ELSE pre.Gp[j]
        /\ \A j \in 1 .. Len(pre.Gpp) :
              heap[ret.ids[4]][j] =
                  IF VLess(pre.Gpp[j], Scale(args.clip, pre.G_s[j])) THEN Zero ELSE pre.Gpp[j]
        /\ Len(heap[ret.ids[3]]) = Len(pre.Gp) /\ Len(heap[ret.ids[4]]) = Len(pre.Gpp)
        /\ heap[ret.ids[1]] = pre.w
        /\ heap[ret.ids[2]] = pre.G_s

\* gse has returned with G' clipped at one index and kept, non-zero, at
\* another, and with G'' kept where G' was clipped
C2_Witness ==
    /\ op = "gse" /\ Returned
    /\ \E j, l \in 1 .. Len(pre.Gp) :
          /\ pre.Gp[j] # Zero /\ heap["Gp"][j] = Zero
          /\ IsFin(pre.Gp[l]) /\ pre.Gp[l] # Zero /\ heap["Gp"][l] = pre.Gp[l]
          /\ IsFin(pre.Gpp[j]) /\ pre.Gpp[j] # Zero /\ heap["Gpp"][j] = pre.Gpp[j]

\* C3.  Each smoothing pass of gse runs log_derivatives with the width the
\* caller gave gse.
C3_WidthReachesPasses ==
    (op = "gse" /\ ld.pass \in {1, 2}) => ld.width = args.width

\* C4.  When the paired sequences differ in length the call stops at the
\* length check: no fit is ever computed, no output array is created, and
\* the call ends in an error, never in a result.
C4_LengthMismatchAborts ==
    (op \in {"log_derivatives", "gse"} /\ ~EqualLengths) =>
        /\ fitcalls = 0
        /\ heap["o1"] = <<>> /\ bind = NoBind
        /\ pc \in {"g_recip", "g_call1", "ld_assert", "done"}
        /\ Done => ret = RaiseRet("AssertionError")

\* a call with sequences of different lengths has ended at the assertion
C4_Witness ==
    /\ ~EqualLengths /\ Failed /\ ret.exc = "AssertionError"
    /\ op = "gse" /\ heap["w"] # <<>>

\* C5.  When an element of x or f (t or r2) is <= 0, the call ends in an
\* error and returns no result.
C5_NonPositiveFailsFast ==
    ( /\ op \in {"log_derivatives", "gse"}
      /\ \E v \in Range(args.x) \cup Range(args.f) : IsNonPositive(v)
      /\ Done ) => ret.kind = "error"

IsWarning(e) == e \in {"warning_msd", "warning_G"}
\* max|dd| > 0.15, over an array of rationals
Exceeds015(dd) ==
    /\ \A j \in 1 .. Len(dd) : IsRat(dd[j])
    /\ \E j \in 1 .. Len(dd) : 20 * Abs(dd[j].m[1]) > 3 * dd[j].m[2]
\* the warnings gse owes, in order, given the curvatures of its two passes
OwedWarnings ==
    (IF Exceeds015(heap["o1"]) THEN <<"warning_msd">> ELSE <<>>)
    \o (IF Exceeds015(heap["o2"]) THEN <<"warning_G">> ELSE <<>>)

\* C6.  A quality check of gse only logs: when gse returns, the warnings
\* logged are exactly those whose pass had max|dd| > 0.15, first-pass
\* warning first, and the result is the 4-tuple (w, G_s, G', G''); the
\* step that makes a check changes no array, no binding and no result, and
\* goes on to the next statement whether or not it warned.
C6_WarningsNonFatal ==
    /\ []((op = "gse" /\ Returned) =>
            /\ SelectSeq(log, IsWarning) = OwedWarnings
            /\ ret.ids = <<"w", "G_s", "Gp", "Gpp">>)
    /\ [][(pc \in {"g_warn1", "g_warn2"}) =>
            /\ pc' = (IF pc = "g_warn1" THEN "g_Gs" ELSE "g_moduli")
            /\ UNCHANGED <<heap, gs, bind, ret, args, pre>>]_vars

\* gse has returned a result after warning about both passes
C6_Witness ==
    /\ op = "gse" /\ Returned
    /\ SelectSeq(log, IsWarning) = <<"warning_msd", "warning_G">>

\* C7.  When a call has ended, every array the caller passed holds the
\* values it held at the call, and the G_s gse returns is the G_s its
\* first stage produced.
C7_InputsUnchanged ==
    Done =>
        /\ op = "log_derivatives" => heap["x"] = args.x /\ heap["f"] = args.f
        /\ op = "gse" => heap["t"] = args.x /\ heap["r2"] = args.f
        /\ (op = "gse" /\ Returned) => heap["G_s"] = pre.G_s
        /\ (op = "fischer" /\ args.bulk_is_array) => heap["bulk"] = <<args.bulk_visc>>

\* the samples are a power law: log f = p log x + q at every sample
PowerLaw(p, q) ==
    /\ AllRat(logx) /\ AllRat(logf) /\ Len(logx) = Len(logf)
    /\ \A j \in 1 .. Len(logx) : IntOf(logf[j]) = p * IntOf(logx[j]) + q

\* C8.  For a power law f = k x^p, log_derivatives returns a first
\* derivative equal to p and a second derivative equal to 0 at every
\* interior index.
C8_PowerLawRecovered ==
    \A p \in 0 .. MaxLogF, q \in 0 .. MaxLogF :
        (op = "log_derivatives" /\ Returned /\ PowerLaw(p, q)) =>
            \A i \in 2 .. Len(logx) - 1 :
                /\ heap[ret.ids[2]][i] = Rat(RInt(p))
                /\ heap[ret.ids[3]][i] = Zero

\* a divisor of gse is zero: the radius a, the smoothed MSD f at some
\* index, or 1 + ddg at some index
ZeroDivisor ==
    \/ args.a = 0
    \/ gs.f # NoArray /\ \E j \in 1 .. Len(heap[gs.f]) : heap[gs.f][j] = Zero
    \/ gs.ddg # NoArray /\ \E j \in 1 .. Len(heap[gs.ddg]) : heap[gs.ddg][j] = Rat(<<-1, 1>>)

\* C9.  When a divisor in gse is zero, gse ends in an error and returns no
\* 4-tuple.
C9_ZeroDivisorAborts ==
    (op = "gse" /\ Done /\ ZeroDivisor) => ret.kind = "error"

\* the logarithms of the caller's sequences
LogOf(q) == [j \in 1 .. Len(q) |-> np_log(q[j])]

\* C10.  Whatever the order and interleaving of the loop bodies, each
\* fit reads the logarithms of the caller's x and f and the caller's width
\* and yields what the ascending loop's fit at that index yields, a body
\* that has finished leaves at its index what the ascending loop leaves
\* there, and the three sequences returned are those the ascending loop
\* returns.
C10_OrderIndependent ==
    (pc = "ld_loop" \/ Returned) =>
        /\ logx = LogOf(args.x) /\ logf = LogOf(args.f) /\ ld.width = args.width
        /\ \A i \in DOMAIN prog : prog[i] >= 1 => coefs[i] = asc.coefs[i]
        /\ \A i \in DOMAIN prog :
              prog[i] = 4 =>
                  /\ heap[bind.smooth_f][i] = asc.smooth_f[i]
                  /\ heap[bind.df][i] = asc.df[i]
                  /\ heap[bind.ddf][i] = asc.ddf[i]
        /\ Returned =>
              /\ heap[ret.ids[1]] = asc.smooth_f
              /\ heap[ret.ids[2]] = asc.df
              /\ heap[ret.ids[3]] = asc.ddf

\* log_derivatives has returned finite, differing values after a run in
\* which a loop body began before an earlier one had finished
C10_Witness ==
    /\ Returned /\ ~inorder
    /\ \E i, j \in 1 .. Len(heap[ret.ids[1]]) :
          /\ IsFin(heap[ret.ids[1]][i])
          /\ heap[ret.ids[1]][i] # heap[ret.ids[1]][j]

====
